---- MODULE Spec2Model ----
(***************************************************************************)
(* Model of the MQTT discovery bridge of src/src/module.ts:                *)
(*   - MqttClientClass: the transport adapter with its discovery window,   *)
(*   - TemplatePlatform.collectIdsForDevice: the discovery collector,      *)
(*   - TemplatePlatform.mapDiscoveryToMatterDeviceType: the classifier,    *)
(*   - the 'discoverEnds' listener and discoverDevice: the orchestrator.   *)
(*                                                                         *)
(* JavaScript strings that the code inspects character by character (the   *)
(* topics) are sequences of one-character strings.  A JavaScript Record is *)
(* a sequence of entries [k, v] in insertion order.  Keys are ordinary     *)
(* strings: none is the name of a property inherited from Object.prototype *)
(* and none is integer-like, so `!rec[key]` is "key is not an own key" and *)
(* enumeration order is insertion order.                                   *)
(***************************************************************************)
EXTENDS Integers, Sequences, FiniteSets, TLC

VARIABLES
    discoverActive,           \* MqttClientClass.discoverActive
    internalConnectionState,  \* MqttClientClass.internalConnectionState
    discoveredIds,            \* TemplatePlatform.discoveredIds
    discoveredDevices,        \* TemplatePlatform.discoveredDevices
    pendingTimers,            \* armed setTimeout callbacks that have not fired yet
    subscribed,               \* the array handed to client.subscribe by the last 'connect'
    linkUp,                   \* the transport library's connection is established
    registrations,            \* calls of registerDevice, each with its outcome so far
    log,                      \* the entries written with log.error, in order
    last,                     \* the handler that ran last, its input and the event it emitted
    uncaught,                 \* an exception left a handler of the adapter
    loopRuns,                 \* number of times the 'discoverEnds' listener has run
    nEvents,                  \* number of events the transport library has raised so far
    entity,                   \* the argument of a call of mapDiscoveryToMatterDeviceType
    deviceType,               \* what that call returned, "none" before it
    arrivals,                 \* discovery messages handed to collectIdsForDevice in turn
    outcomes                  \* the sessions those calls leave, per order of arrival

vars == <<discoverActive, internalConnectionState, discoveredIds, discoveredDevices,
          pendingTimers, subscribed, linkUp, registrations, log, last, uncaught,
          loopRuns, nEvents, entity, deviceType, arrivals, outcomes>>

\* the state of the adapter and the platform
running == <<discoverActive, internalConnectionState, discoveredIds, discoveredDevices,
             pendingTimers, subscribed, linkUp, registrations, log, last, uncaught,
             loopRuns, nEvents>>

\* the arguments and results of the functions called on their own
calls == <<entity, deviceType, arrivals, outcomes>>

session == <<discoveredIds, discoveredDevices>>

-----------------------------------------------------------------------------
(* Bounds of the model.                                                    *)

\* the transport library raises at most MaxEvents events
MaxEvents == 4

-----------------------------------------------------------------------------
(* JavaScript values and string functions.                                 *)

\* the value `undefined`
Undefined == "<undefined>"

\* a property key: `undefined` used as a key is the string "undefined"
Key(x) == IF x = Undefined THEN "undefined" ELSE x

Min2(a, b) == IF a < b THEN a ELSE b
Max2(a, b) == IF a > b THEN a ELSE b

\* String.prototype.startsWith
StartsWith(s, p) == Len(p) <= Len(s) /\ SubSeq(s, 1, Len(p)) = p

\* String.prototype.endsWith
EndsWith(s, p) == Len(p) <= Len(s) /\ SubSeq(s, Len(s) - Len(p) + 1, Len(s)) = p

\* zero-based positions at which `sub` occurs in s
Occurrences(s, sub) ==
    {i \in 0..(Len(s) - Len(sub)) : SubSeq(s, i + 1, i + Len(sub)) = sub}

\* String.prototype.indexOf: the first position, -1 when there is none
IndexOf(s, sub) ==
    IF Occurrences(s, sub) = {} THEN -1
    ELSE CHOOSE i \in Occurrences(s, sub) : \A j \in Occurrences(s, sub) : i <= j

\* String.prototype.substring: arguments clamped to 0..length and swapped if needed
Substring(s, a, b) ==
    LET ca == Max2(0, Min2(a, Len(s)))
        cb == Max2(0, Min2(b, Len(s)))
    IN  SubSeq(s, Min2(ca, cb) + 1, Max2(ca, cb))

\* String.prototype.replace with a string pattern: the first occurrence only
ReplaceFirst(s, pat, rep) ==
    LET i == IndexOf(s, pat)
    IN  IF i = -1 THEN s
        ELSE SubSeq(s, 1, i) \o rep \o SubSeq(s, i + Len(pat) + 1, Len(s))

\* Record lookups: `rec[k]` is truthy exactly for an own key (values are objects)
Has(rec, k) == \E i \in DOMAIN rec : rec[i].k = k
Get(rec, k) == rec[CHOOSE i \in DOMAIN rec : rec[i].k = k].v
Put(rec, k, v) ==
    IF Has(rec, k)
    THEN [i \in DOMAIN rec |-> IF rec[i].k = k THEN [k |-> k, v |-> v] ELSE rec[i]]
    ELSE Append(rec, [k |-> k, v |-> v])
Keys(rec) == {rec[i].k : i \in DOMAIN rec}

-----------------------------------------------------------------------------
(* Topics.                                                                 *)

\* MqttClientClass.discovertopic, from settings.discoverTopic: "ha"
discovertopic == <<"h", "a">>

Slash == <<"/">>
ConfigSuffix == <<"/", "c", "o", "n", "f", "i", "g">>
StateWord == <<"s", "t", "a", "t", "e">>
LorawanWord == <<"l", "o", "r", "a", "w", "a", "n", "_">>
Plus == <<"+">>

\* "ha/sensor/n1/t/config": three levels between the root and config
TopicSensor ==
    discovertopic \o Slash \o <<"s", "e", "n", "s", "o", "r">> \o Slash \o <<"n", "1">>
        \o Slash \o <<"t">> \o ConfigSuffix

\* "ha/number/n1/config": two levels between the root and config
TopicNumber ==
    discovertopic \o Slash \o <<"n", "u", "m", "b", "e", "r">> \o Slash \o <<"n", "1">>
        \o ConfigSuffix

\* "hab/x/config": begins with the characters of the root, not with the root segment
TopicPrefixOnly == discovertopic \o <<"b">> \o Slash \o <<"x">> \o ConfigSuffix

\* "lorawan_1/n1/state": a state topic of the fixed subscriptions
TopicState == LorawanWord \o <<"1">> \o Slash \o <<"n", "1">> \o Slash \o StateWord

\* "ha/sensor/n1/state": under the root, not a config topic
TopicRootState ==
    discovertopic \o Slash \o <<"s", "e", "n", "s", "o", "r">> \o Slash \o <<"n", "1">>
        \o Slash \o StateWord

Topics == {TopicSensor, TopicNumber, TopicPrefixOnly, TopicState, TopicRootState}

-----------------------------------------------------------------------------
(* Discovery payloads.                                                     *)

\* payload.device: absent, or an object whose name and identifiers may be absent
NoDevice == [present |-> FALSE, name |-> Undefined, hasIdentifiers |-> FALSE,
             identifiers |-> <<>>]
Device(name, identifiers) ==
    [present |-> TRUE, name |-> name, hasIdentifiers |-> TRUE, identifiers |-> identifiers]
DeviceNoIdentifiers(name) ==
    [present |-> TRUE, name |-> name, hasIdentifiers |-> FALSE, identifiers |-> <<>>]

\* the fields of EntityPayload the code reads; min and max are <<>> when absent
Payload(uid, name, device, class, unit, min, max) ==
    [unique_id |-> uid, name |-> name, device |-> device, device_class |-> class,
     unit_of_measurement |-> unit, discoveryType |-> Undefined, min |-> min, max |-> max]

Dev1 == Device("Node A", <<"dev-1">>)
Dev2 == Device("Node B", <<"dev-2", "dev-9">>)

PayloadE1 == Payload("e1", "Temp", Dev1, "temperature", "°C", <<>>, <<>>)
PayloadE2 == Payload("e2", "Door", Dev1, "door", Undefined, <<>>, <<>>)
PayloadE3 == Payload("e3", "Level", Dev2, Undefined, Undefined, <<0>>, <<100>>)
\* e1 again: another payload, the same device, another device name
PayloadE1Again == Payload("e1", "Temp v2", Device("Renamed", <<"dev-1">>), "humidity", Undefined, <<>>, <<>>)
\* e1 again: another payload, another device
PayloadE1Moved == Payload("e1", "Power", Dev2, Undefined, "W", <<>>, <<>>)
PayloadNoUid == Payload(Undefined, "Anon", Dev1, "door", Undefined, <<>>, <<>>)
PayloadNoDevice == Payload("e2", "Door", NoDevice, "door", Undefined, <<>>, <<>>)
PayloadNoDeviceName == Payload("e2", "Door", Device(Undefined, <<"dev-2">>), "door", Undefined, <<>>, <<>>)
PayloadNoIdentifiers == Payload("e2", "Door", DeviceNoIdentifiers("Node A"), "door", Undefined, <<>>, <<>>)
PayloadEmptyIdentifiers == Payload("e2", "Door", Device("Node A", <<>>), "door", Undefined, <<>>, <<>>)

Payloads ==
    {PayloadE1, PayloadE2, PayloadE3, PayloadE1Again, PayloadE1Moved, PayloadNoUid,
     PayloadNoDevice, PayloadNoDeviceName, PayloadNoIdentifiers, PayloadEmptyIdentifiers}

\* the value of a message that holds no object
NoPayload == Payload(Undefined, Undefined, NoDevice, Undefined, Undefined, <<>>, <<>>)

\* the bytes of a message: text that is no JSON, the JSON text "null", or the JSON
\* text of an object
NotJson == [json |-> "invalid", value |-> NoPayload]
JsonNull == [json |-> "null", value |-> NoPayload]
JsonObject(p) == [json |-> "object", value |-> p]

RawMessages == {NotJson, JsonNull} \cup {JsonObject(p) : p \in Payloads}

Inbound(topic, message) == [topic |-> topic, message |-> message]

\* the inbound messages of the model: every payload on a discovery topic, and a
\* well-formed payload on every other topic
InboundMessages ==
    {Inbound(TopicSensor, m) : m \in RawMessages}
        \cup {Inbound(t, JsonObject(PayloadE3)) : t \in Topics}
        \cup {Inbound(TopicNumber, JsonObject(PayloadE2))}

NoMessage == [json |-> "none", value |-> NoPayload]

-----------------------------------------------------------------------------
(* The classifier.                                                         *)

\* the table `map` of mapDiscoveryToMatterDeviceType
ClassMap ==
    [temperature |-> "temperatureSensor",
     humidity |-> "humiditySensor",
     pressure |-> "pressureSensor",
     illuminance |-> "lightSensor",
     power |-> "electricalSensor",
     energy |-> "electricalSensor",
     voltage |-> "electricalSensor",
     current |-> "electricalSensor",
     carbon_dioxide |-> "airQualitySensor",
     carbon_monoxide |-> "airQualitySensor",
     volatile_organic_compounds_parts |-> "airQualitySensor",
     motion |-> "occupancySensor",
     presence |-> "occupancySensor",
     door |-> "contactSensor",
     window |-> "contactSensor",
     moisture |-> "waterLeakDetector",
     smoke |-> "smokeCoAlarm",
     gas |-> "smokeCoAlarm",
     light |-> "dimmableLight",
     switch |-> "onOffSwitch",
     outlet |-> "onOffOutlet",
     valve |-> "waterValve",
     cover |-> "coverDevice",
     fan |-> "fanDevice",
     humidifier |-> "airPurifier",
     dehumidifier |-> "airPurifier",
     thermostat |-> "thermostatDevice",
     lock |-> "doorLockDevice"]

\* a string is truthy unless it is undefined or empty
Truthy(x) == x # Undefined /\ x # ""

\* the classifier with the unit tested before the table
mapDiscoveryToMatterDeviceTypeUnitFirst(entityPayload) ==
    LET unit == entityPayload.unit_of_measurement
        min == entityPayload.min
        max == entityPayload.max
    IN  IF Truthy(unit) /\ unit \in {"W", "Wh", "kWh"} THEN "electricalSensor"
        ELSE IF Truthy(unit) /\ unit \in {"°C", "°F"} THEN "temperatureSensor"
        ELSE IF Truthy(entityPayload.device_class)
                /\ entityPayload.device_class \in DOMAIN ClassMap
        THEN ClassMap[entityPayload.device_class]
        ELSE IF entityPayload.discoveryType = "number"
        THEN IF min # <<>> /\ min[1] >= 0 /\ max # <<>> /\ max[1] <= 100
             THEN "dimmableLight"
             ELSE "modeSelect"
        ELSE IF entityPayload.discoveryType = "select" THEN "modeSelect"
        ELSE "genericSwitch"

\* the classifier with the row of 'window' holding the value of the row above 'door'
mapDiscoveryToMatterDeviceTypeWindowRow(entityPayload) ==
    LET map == [ClassMap EXCEPT !.window = "occupancySensor"]
        unit == entityPayload.unit_of_measurement
        min == entityPayload.min
        max == entityPayload.max
    IN  IF Truthy(entityPayload.device_class) /\ entityPayload.device_class \in DOMAIN map
        THEN map[entityPayload.device_class]
        ELSE IF Truthy(unit) /\ unit \in {"W", "Wh", "kWh"} THEN "electricalSensor"
        ELSE IF Truthy(unit) /\ unit \in {"°C", "°F"} THEN "temperatureSensor"
        ELSE IF entityPayload.discoveryType = "number"
        THEN IF min # <<>> /\ min[1] >= 0 /\ max # <<>> /\ max[1] <= 100
             THEN "dimmableLight"
             ELSE "modeSelect"
        ELSE IF entityPayload.discoveryType = "select" THEN "modeSelect"
        ELSE "genericSwitch"

mapDiscoveryToMatterDeviceType(entityPayload) ==
    LET unit == entityPayload.unit_of_measurement
        min == entityPayload.min
        max == entityPayload.max
    IN  IF Truthy(entityPayload.device_class) /\ entityPayload.device_class \in DOMAIN ClassMap
        THEN ClassMap[entityPayload.device_class]
        ELSE IF Truthy(unit) /\ unit \in {"W", "Wh", "kWh"} THEN "electricalSensor"
        ELSE IF Truthy(unit) /\ unit \in {"°C", "°F"} THEN "temperatureSensor"
        ELSE IF entityPayload.discoveryType = "number"
        THEN IF min # <<>> /\ min[1] >= 0 /\ max # <<>> /\ max[1] <= 100
             THEN "dimmableLight"
             ELSE "modeSelect"
        ELSE IF entityPayload.discoveryType = "select" THEN "modeSelect"
        ELSE "genericSwitch"

-----------------------------------------------------------------------------
(* The discovery collector.                                                *)

\* lines 200-201: the topic without the first "<root>/", up to its first "/"
DiscoverTypeOf(discoverTopic) ==
    LET rest == ReplaceFirst(discoverTopic, discovertopic \o Slash, <<>>)
    IN  Substring(rest, 0, IndexOf(rest, Slash))

\* lines 198-201: the parsed object with discoverTopic and discoverType assigned
Stamp(payload, discoverTopic) ==
    [unique_id |-> payload.unique_id, name |-> payload.name, device |-> payload.device,
     device_class |-> payload.device_class,
     unit_of_measurement |-> payload.unit_of_measurement,
     discoveryType |-> payload.discoveryType, min |-> payload.min, max |-> payload.max,
     discoverTopic |-> discoverTopic, discoverType |-> DiscoverTypeOf(discoverTopic)]

\* the entry log.error writes in the catch block, line 217
CaughtError(e) == [fn |-> "collectIdsForDevice", level |-> "error", what |-> e]
\* the entry log.error writes at line 202
TypeLogged == [fn |-> "collectIdsForDevice", level |-> "error", what |-> "discoverType"]

\* StoreEntity with the device keyed by its name instead of identifiers[0]
StoreEntityByName(ids, devs, payload) ==
    LET IduniqueId == Key(payload.unique_id)
        DeviceName == payload.device.name
        DeviceIdentifier == Key(DeviceName)
        ids1 == IF ~Has(ids, IduniqueId) THEN Put(ids, IduniqueId, payload) ELSE ids
        devs1 == IF ~Has(devs, DeviceIdentifier)
                 THEN Put(devs, DeviceIdentifier, [name |-> DeviceName, Ids |-> <<>>])
                 ELSE devs
        dev == Get(devs1, DeviceIdentifier)
        devs2 == IF ~Has(dev.Ids, IduniqueId)
                 THEN Put(devs1, DeviceIdentifier,
                          [name |-> dev.name, Ids |-> Put(dev.Ids, IduniqueId, payload)])
                 ELSE devs1
    IN  [ids |-> ids1, devs |-> devs2]

\* StoreEntity with the device's name taken from every message of the device
StoreEntityRenames(ids, devs, payload) ==
    LET IduniqueId == Key(payload.unique_id)
        DeviceName == payload.device.name
        DeviceIdentifier ==
            Key(IF Len(payload.device.identifiers) >= 1
                THEN payload.device.identifiers[1] ELSE Undefined)
        ids1 == IF ~Has(ids, IduniqueId) THEN Put(ids, IduniqueId, payload) ELSE ids
        devs1 == IF ~Has(devs, DeviceIdentifier)
                 THEN Put(devs, DeviceIdentifier, [name |-> DeviceName, Ids |-> <<>>])
                 ELSE Put(devs, DeviceIdentifier,
                          [name |-> DeviceName, Ids |-> Get(devs, DeviceIdentifier).Ids])
        dev == Get(devs1, DeviceIdentifier)
        devs2 == IF ~Has(dev.Ids, IduniqueId)
                 THEN Put(devs1, DeviceIdentifier,
                          [name |-> dev.name, Ids |-> Put(dev.Ids, IduniqueId, payload)])
                 ELSE devs1
    IN  [ids |-> ids1, devs |-> devs2]

\* StoreEntity with the device record created anew by every message of the device
StoreEntityResetsDevice(ids, devs, payload) ==
    LET IduniqueId == Key(payload.unique_id)
        DeviceName == payload.device.name
        DeviceIdentifier ==
            Key(IF Len(payload.device.identifiers) >= 1
                THEN payload.device.identifiers[1] ELSE Undefined)
        ids1 == IF ~Has(ids, IduniqueId) THEN Put(ids, IduniqueId, payload) ELSE ids
        devs1 == Put(devs, DeviceIdentifier, [name |-> DeviceName, Ids |-> <<>>])
        dev == Get(devs1, DeviceIdentifier)
        devs2 == IF ~Has(dev.Ids, IduniqueId)
                 THEN Put(devs1, DeviceIdentifier,
                          [name |-> dev.name, Ids |-> Put(dev.Ids, IduniqueId, payload)])
                 ELSE devs1
    IN  [ids |-> ids1, devs |-> devs2]

\* lines 207-215 for a payload whose three reads (203-205) did not throw
StoreEntity(ids, devs, payload) ==
    LET IduniqueId == Key(payload.unique_id)
        DeviceName == payload.device.name
        DeviceIdentifier ==
            Key(IF Len(payload.device.identifiers) >= 1
                THEN payload.device.identifiers[1] ELSE Undefined)
        ids1 == IF ~Has(ids, IduniqueId) THEN Put(ids, IduniqueId, payload) ELSE ids
        devs1 == IF ~Has(devs, DeviceIdentifier)
                 THEN Put(devs, DeviceIdentifier, [name |-> DeviceName, Ids |-> <<>>])
                 ELSE devs
        dev == Get(devs1, DeviceIdentifier)
        devs2 == IF ~Has(dev.Ids, IduniqueId)
                 THEN Put(devs1, DeviceIdentifier,
                          [name |-> dev.name, Ids |-> Put(dev.Ids, IduniqueId, payload)])
                 ELSE devs1
    IN  [ids |-> ids1, devs |-> devs2]

\* collectIdsForDevice with an empty catch block: the error is swallowed, not logged
collectIdsForDeviceSilent(ids, devs, discoverTopic, message) ==
    IF message.json # "object"
    THEN [ids |-> ids, devs |-> devs, logged |-> <<>>]
    ELSE LET payload == Stamp(message.value, discoverTopic)
         IN  IF ~payload.device.present \/ ~payload.device.hasIdentifiers
             THEN [ids |-> ids, devs |-> devs, logged |-> <<TypeLogged>>]
             ELSE [ids |-> StoreEntity(ids, devs, payload).ids,
                   devs |-> StoreEntity(ids, devs, payload).devs,
                   logged |-> <<TypeLogged>>]

\* collectIdsForDevice: the session and the log entries it leaves behind
collectIdsForDevice(ids, devs, discoverTopic, message) ==
    IF message.json = "invalid"
    THEN \* JSON.parse throws
         [ids |-> ids, devs |-> devs, logged |-> <<CaughtError("SyntaxError")>>]
    ELSE IF message.json # "object"
    THEN \* line 198: assigning a property of null throws
         [ids |-> ids, devs |-> devs, logged |-> <<CaughtError("TypeError")>>]
    ELSE LET payload == Stamp(message.value, discoverTopic)
         IN  IF ~payload.device.present \/ ~payload.device.hasIdentifiers
             THEN \* lines 204-205: reading a property of undefined throws
                  [ids |-> ids, devs |-> devs,
                   logged |-> <<TypeLogged, CaughtError("TypeError")>>]
             ELSE [ids |-> StoreEntity(ids, devs, payload).ids,
                   devs |-> StoreEntity(ids, devs, payload).devs,
                   logged |-> <<TypeLogged>>]

-----------------------------------------------------------------------------
(* The orchestrator.                                                       *)

\* discoverDevice with the children named by unique_id instead of name
discoverDeviceByUniqueId(deviceUniqueId, device) ==
    [id |-> deviceUniqueId,
     name |-> device.name,
     children |-> [i \in DOMAIN device.Ids |->
                      [name |-> device.Ids[i].v.unique_id,
                       type |-> mapDiscoveryToMatterDeviceType(device.Ids[i].v)]]]

\* lines 273-301: the endpoint built for one device, with one addChildDeviceType
\* call per value of device.Ids, in enumeration order
discoverDevice(deviceUniqueId, device) ==
    [id |-> deviceUniqueId,
     name |-> device.name,
     children |-> [i \in DOMAIN device.Ids |->
                      [name |-> device.Ids[i].v.name,
                       type |-> mapDiscoveryToMatterDeviceType(device.Ids[i].v)]]]

\* the entry log.error writes in the catch block of discoverDevice, line 306
RejectedLogged == [fn |-> "discoverDevice", level |-> "error", what |-> "rejected"]

\* the listener with a discoverDevice that does not catch: the first failing
\* registerDevice call ends the loop
discoverEndsListenerAborting(devs, run, failNow) ==
    LET failing == {j \in DOMAIN devs : devs[j].k \in failNow}
        stop == IF failing = {} THEN Len(devs)
                ELSE CHOOSE j \in failing : \A h \in failing : j <= h
    IN  [regs |-> [i \in 1..stop |->
                      [req |-> discoverDevice(devs[i].k, devs[i].v),
                       run |-> run,
                       status |-> IF devs[i].k \in failNow THEN "rejected" ELSE "pending"]],
         logged |-> <<>>]

\* the 'discoverEnds' listener, lines 179-185: discoverDevice is called for every key
\* of discoveredDevices; each call runs up to its `await this.registerDevice(...)`.
\* failNow: the devices whose registerDevice call fails before it suspends.
discoverEndsListener(devs, run, failNow) ==
    [regs |-> [i \in DOMAIN devs |->
                  [req |-> discoverDevice(devs[i].k, devs[i].v),
                   run |-> run,
                   status |-> IF devs[i].k \in failNow THEN "rejected" ELSE "pending"]],
     logged |-> [i \in 1..Cardinality({j \in DOMAIN devs : devs[j].k \in failNow}) |->
                    RejectedLogged]]

-----------------------------------------------------------------------------
(* The transport adapter.                                                  *)

Digit == <<"0", "1", "2", "3", "4", "5", "6", "7", "8", "9">>
Decimal(i) ==
    IF i < 10 THEN <<Digit[i + 1]>> ELSE <<Digit[(i \div 10) + 1], Digit[(i % 10) + 1]>>

\* getSubscriptionArray: lorawan_<i>/+/state and lorawan_<i>/+/+/state for i = 0..10
getSubscriptionArray ==
    [n \in 1..22 |->
        LET i == (n - 1) \div 2
        IN  IF n % 2 = 1
            THEN LorawanWord \o Decimal(i) \o Slash \o Plus \o Slash \o StateWord
            ELSE LorawanWord \o Decimal(i) \o Slash \o Plus \o Slash \o Plus \o Slash
                     \o StateWord]

\* ConnectSubscriptions without the three-level pattern of the discovery root
ConnectSubscriptionsTwoLevel ==
    getSubscriptionArray
        \o <<discovertopic \o Slash \o Plus \o Slash \o Plus \o ConfigSuffix>>

\* lines 422-426: the array the 'connect' handler subscribes to
ConnectSubscriptions ==
    getSubscriptionArray
        \o <<discovertopic \o Slash \o Plus \o Slash \o Plus \o ConfigSuffix,
             discovertopic \o Slash \o Plus \o Slash \o Plus \o Slash \o Plus \o ConfigSuffix>>

\* RouteMessage without the test of discoverActive
RouteMessageAnyTime(active, topic) ==
    IF StartsWith(topic, discovertopic) /\ EndsWith(topic, ConfigSuffix)
    THEN "discover"
    ELSE "none"

\* RouteMessage without the test of the '/config' suffix
RouteMessageNoSuffix(active, topic) ==
    IF active
    THEN IF StartsWith(topic, discovertopic) THEN "discover" ELSE "none"
    ELSE "message"

\* lines 450-456: the event the 'message' handler emits for a topic
RouteMessage(active, topic) ==
    IF active
    THEN IF StartsWith(topic, discovertopic) /\ EndsWith(topic, ConfigSuffix)
         THEN "discover"
         ELSE "none"
    ELSE "message"

Ran(handler, topic, message, emitted) ==
    [handler |-> handler, topic |-> topic, message |-> message, emitted |-> emitted]

-----------------------------------------------------------------------------
(* State after the constructors and onStart.                               *)

Constructed ==
    /\ discoverActive = TRUE
    /\ internalConnectionState = FALSE
    /\ discoveredIds = <<>>
    /\ discoveredDevices = <<>>
    /\ pendingTimers = 0
    /\ subscribed = <<>>
    /\ linkUp = FALSE
    /\ registrations = <<>>
    /\ log = <<>>
    /\ last = Ran("onStart", <<>>, NoMessage, "none")
    /\ uncaught = FALSE
    /\ loopRuns = 0
    /\ nEvents = 0

\* no function has been called on its own
NoCalls ==
    /\ entity = NoPayload
    /\ deviceType = "none"
    /\ arrivals = <<>>
    /\ outcomes = <<>>

Init == Constructed /\ NoCalls

\* client 'connect', lines 415-434
Connect ==
    /\ ~linkUp
    /\ nEvents < MaxEvents
    /\ nEvents' = nEvents + 1
    /\ linkUp' = TRUE
    /\ last' = Ran("connect", <<>>, NoMessage,
                   IF ~internalConnectionState THEN "connect" ELSE "none")
    /\ internalConnectionState' = TRUE
    /\ subscribed' = ConnectSubscriptions
    /\ pendingTimers' = pendingTimers + 1
    /\ UNCHANGED <<discoverActive, discoveredIds, discoveredDevices, registrations, log,
                   uncaught, loopRuns, calls>>

\* the setTimeout callback, lines 430-433, and the 'discoverEnds' listener it reaches
WindowTimer ==
    /\ pendingTimers > 0
    /\ pendingTimers' = pendingTimers - 1
    /\ discoverActive' = FALSE
    /\ loopRuns' = loopRuns + 1
    /\ \E failNow \in SUBSET Keys(discoveredDevices) :
          LET r == discoverEndsListener(discoveredDevices, loopRuns + 1, failNow)
          IN  /\ registrations' = registrations \o r.regs
              /\ log' = log \o r.logged
    /\ last' = Ran("timer", <<>>, NoMessage, "discoverEnds")
    /\ UNCHANGED <<internalConnectionState, discoveredIds, discoveredDevices, subscribed,
                   linkUp, uncaught, nEvents, calls>>

\* client 'message', lines 448-460, and the 'discover' listener, lines 169-177
Message ==
    /\ linkUp
    /\ nEvents < MaxEvents
    /\ nEvents' = nEvents + 1
    /\ \E in \in InboundMessages :
          LET topic == in.topic
              message == in.message
              emitted == RouteMessage(discoverActive, topic)
              c == collectIdsForDevice(discoveredIds, discoveredDevices, topic, message)
          IN  /\ last' = Ran("message", topic, message, emitted)
              /\ IF emitted = "discover"
                 THEN /\ discoveredIds' = c.ids
                      /\ discoveredDevices' = c.devs
                      /\ log' = log \o c.logged
                 ELSE UNCHANGED <<discoveredIds, discoveredDevices, log>>
    /\ UNCHANGED <<discoverActive, internalConnectionState, pendingTimers, subscribed,
                   linkUp, registrations, uncaught, loopRuns, calls>>

\* the promise of a registerDevice call resolves: discoverDevice returns
RegisterDeviceResolves ==
    \E i \in DOMAIN registrations :
        /\ registrations[i].status = "pending"
        /\ registrations' = [registrations EXCEPT ![i].status = "registered"]
        /\ UNCHANGED <<discoverActive, internalConnectionState, discoveredIds,
                       discoveredDevices, pendingTimers, subscribed, linkUp, log, last,
                       uncaught, loopRuns, nEvents, calls>>

\* the promise of a registerDevice call rejects: the catch block, lines 305-307
RegisterDeviceRejects ==
    \E i \in DOMAIN registrations :
        /\ registrations[i].status = "pending"
        /\ registrations' = [registrations EXCEPT ![i].status = "rejected"]
        /\ log' = Append(log, RejectedLogged)
        /\ UNCHANGED <<discoverActive, internalConnectionState, discoveredIds,
                       discoveredDevices, pendingTimers, subscribed, linkUp, last,
                       uncaught, loopRuns, nEvents, calls>>

\* client 'disconnect', lines 436-438
Disconnect ==
    /\ linkUp
    /\ nEvents < MaxEvents
    /\ nEvents' = nEvents + 1
    /\ last' = Ran("disconnect", <<>>, NoMessage, "disconnected")
    /\ UNCHANGED <<discoverActive, internalConnectionState, discoveredIds,
                   discoveredDevices, pendingTimers, subscribed, linkUp, registrations,
                   log, uncaught, loopRuns, calls>>

\* client 'close', lines 440-442
Close ==
    /\ linkUp
    /\ nEvents < MaxEvents
    /\ nEvents' = nEvents + 1
    /\ linkUp' = FALSE
    /\ last' = Ran("close", <<>>, NoMessage, "Connection is closed.")
    /\ UNCHANGED <<discoverActive, internalConnectionState, discoveredIds,
                   discoveredDevices, pendingTimers, subscribed, registrations, log,
                   uncaught, loopRuns, calls>>

\* client 'error', lines 444-446: 'error' has no listener (lines 165-185), and
\* EventEmitter.emit throws for an 'error' event without one
TransportError ==
    /\ nEvents < MaxEvents
    /\ nEvents' = nEvents + 1
    /\ last' = Ran("error", <<>>, NoMessage, "error")
    /\ uncaught' = TRUE
    /\ UNCHANGED <<discoverActive, internalConnectionState, discoveredIds,
                   discoveredDevices, pendingTimers, subscribed, linkUp, registrations,
                   log, loopRuns, calls>>

Next ==
    \/ Connect
    \/ WindowTimer
    \/ Message
    \/ RegisterDeviceResolves
    \/ RegisterDeviceRejects
    \/ Disconnect
    \/ Close
    \/ TransportError

Spec == Init /\ [][Next]_vars

\* the event loop runs the callback of an armed timer as long as the process lives; an
\* uncaught exception ends the process unless the host catches it
SpecLive == Init /\ [][Next]_vars /\ WF_vars(WindowTimer /\ ~uncaught)

-----------------------------------------------------------------------------
(* The classifier called on its own, for every entity record of a bounded  *)
(* set.                                                                    *)

\* the values of device_class: every name of the table, no class, the empty string and
\* two names the table does not hold
ClassInputs ==
    DOMAIN ClassMap \cup {Undefined, "", "volatile_organic_compounds", "battery"}
UnitInputs == {Undefined, "W", "Wh", "kWh", "°C", "°F", "V"}
TypeInputs == {Undefined, "number", "select", "binary_sensor"}
MinInputs == {<<>>, <<-1>>, <<0>>}
MaxInputs == {<<>>, <<100>>, <<101>>, <<255>>}

EntityInputs ==
    {[Payload("e1", "Entity", Dev1, c, u, lo, hi) EXCEPT !.discoveryType = t] :
        c \in ClassInputs, u \in UnitInputs, t \in TypeInputs,
        lo \in MinInputs, hi \in MaxInputs}

InitClassify ==
    /\ Constructed
    /\ entity \in EntityInputs
    /\ deviceType = "none"
    /\ arrivals = <<>>
    /\ outcomes = <<>>

\* one call of mapDiscoveryToMatterDeviceType, line 293
Classify ==
    /\ deviceType = "none"
    /\ deviceType' = mapDiscoveryToMatterDeviceType(entity)
    /\ UNCHANGED <<running, entity, arrivals, outcomes>>

NextClassify == Classify

SpecClassify == InitClassify /\ [][NextClassify]_vars

-----------------------------------------------------------------------------
(* The collector called on its own, for every sequence of three messages   *)
(* of a bounded set, in every order.                                       *)

\* the messages handed to collectIdsForDevice: every message on two discovery topics
ArrivalInputs ==
    {<<a, b, c>> : a, b, c \in {Inbound(t, m) : t \in {TopicSensor, TopicNumber},
                                                m \in RawMessages}}

\* the orders in which three messages can arrive
Orders == <<<<1, 2, 3>>, <<1, 3, 2>>, <<2, 1, 3>>, <<2, 3, 1>>, <<3, 1, 2>>, <<3, 2, 1>>>>

\* the session after collectIdsForDevice has handled the messages one after another
RECURSIVE CollectAll(_, _, _)
CollectAll(ids, devs, msgs) ==
    IF msgs = <<>>
    THEN [ids |-> ids, devs |-> devs]
    ELSE LET c == collectIdsForDevice(ids, devs, Head(msgs).topic, Head(msgs).message)
         IN  CollectAll(c.ids, c.devs, Tail(msgs))

InitOrder ==
    /\ Constructed
    /\ entity = NoPayload
    /\ deviceType = "none"
    /\ arrivals \in ArrivalInputs
    /\ outcomes = <<>>

\* the calls of collectIdsForDevice: the second message once and twice after the first,
\* and the three messages in each order on a new session
CollectArrivals ==
    /\ outcomes = <<>>
    /\ outcomes' =
          <<[once  |-> CollectAll(<<>>, <<>>, <<arrivals[1], arrivals[2]>>),
             twice |-> CollectAll(<<>>, <<>>, <<arrivals[1], arrivals[2], arrivals[2]>>),
             orders |-> [o \in DOMAIN Orders |->
                           CollectAll(<<>>, <<>>, [n \in 1..3 |-> arrivals[Orders[o][n]]])]]>>
    /\ UNCHANGED <<running, entity, deviceType, arrivals>>

NextOrder == CollectArrivals

SpecOrder == InitOrder /\ [][NextOrder]_vars

-----------------------------------------------------------------------------
(* Steps and inputs the properties speak about.                            *)

\* the step is a run of the 'message' handler
MessageStep == nEvents' = nEvents + 1 /\ last'.handler = "message"
\* the step handed its message to collectIdsForDevice
CollectStep == MessageStep /\ last'.emitted = "discover"
\* the step is a run of the 'connect' handler
ConnectStep == pendingTimers' = pendingTimers + 1
\* the step is a run of the window timer's callback
TimerStep == loopRuns' = loopRuns + 1

\* the first element of payload.device.identifiers, if there is one
FirstIdentifier(p) ==
    IF p.device.present /\ p.device.hasIdentifiers /\ Len(p.device.identifiers) >= 1
    THEN p.device.identifiers[1]
    ELSE Undefined

\* the message parses to an object that has unique_id, device.name and
\* device.identifiers[0]
WellFormed(message) ==
    /\ message.json = "object"
    /\ message.value.unique_id # Undefined
    /\ message.value.device.present
    /\ message.value.device.name # Undefined
    /\ FirstIdentifier(message.value) # Undefined

\* the message parses to an object that lacks one of the three required fields
LacksRequired(message) ==
    /\ message.json = "object"
    /\ \/ message.value.unique_id = Undefined
       \/ ~message.value.device.present
       \/ message.value.device.name = Undefined
       \/ FirstIdentifier(message.value) = Undefined

\* the stored record carries every field of the payload the message held, and the topic
IsRecordOf(stored, message, topic) ==
    /\ \A f \in DOMAIN message.value : stored[f] = message.value[f]
    /\ stored.discoverTopic = topic

\* the topic begins with the characters of the root and ends with "/config"
MatchesDiscovery(topic) ==
    /\ Len(topic) >= Len(discovertopic)
    /\ \A i \in 1..Len(discovertopic) : topic[i] = discovertopic[i]
    /\ Len(topic) >= Len(ConfigSuffix)
    /\ \A i \in 1..Len(ConfigSuffix) :
          topic[Len(topic) - Len(ConfigSuffix) + i] = ConfigSuffix[i]

\* the unique_ids held by the entity maps of the devices
IdsOfDevices(devs) == UNION {Keys(devs[i].v.Ids) : i \in DOMAIN devs}
\* the devices whose entity map holds the unique_id
OwnersOf(devs, uid) == {devs[i].k : i \in {j \in DOMAIN devs : uid \in Keys(devs[j].v.Ids)}}
\* the entity map of a device, empty for a device that does not exist
IdsOf(devs, d) == IF Has(devs, d) THEN Get(devs, d).Ids ELSE <<>>

RECURSIVE SumLen(_, _)
SumLen(devs, n) == IF n = 0 THEN 0 ELSE Len(devs[n].v.Ids) + SumLen(devs, n - 1)
\* the number of entity records in all entity maps
EntityCount(devs) == SumLen(devs, Len(devs))

-----------------------------------------------------------------------------
(* C1: a discovery message whose unique_id is already in the session is    *)
(* discarded, whatever payload or device identifier it carries: the entity *)
(* index, the set of devices and every entity map are unchanged by it.     *)
C1_FirstWriteWins ==
    [][(CollectStep /\ last'.message.json = "object"
            /\ Has(discoveredIds, Key(last'.message.value.unique_id)))
        => (discoveredIds' = discoveredIds /\ discoveredDevices' = discoveredDevices)]_vars

C3_MissingFieldDropped ==
    [][(CollectStep /\ LacksRequired(last'.message))
        => /\ discoveredIds' = discoveredIds
           /\ discoveredDevices' = discoveredDevices
           /\ Len(log') > Len(log)
           /\ log'[Len(log')] \in {CaughtError("TypeError"), CaughtError("SyntaxError")}]_vars

(* C4: a discovery message that cannot be parsed leaves the index and the  *)
(* devices as they were, logs exactly one error and lets no exception      *)
(* escape; a well-formed message handled right after the unparseable one   *)
(* is recorded, so [unparseable, valid] ends with exactly one entity.      *)
C4_ParseFailure ==
    [][/\ (CollectStep /\ last'.message.json = "invalid")
            => /\ discoveredIds' = discoveredIds
               /\ discoveredDevices' = discoveredDevices
               /\ log' = Append(log, CaughtError("SyntaxError"))
               /\ uncaught' = uncaught
       /\ (CollectStep /\ WellFormed(last'.message)
                /\ log = <<CaughtError("SyntaxError")>>)
            => /\ Len(discoveredIds') = 1
               /\ EntityCount(discoveredDevices') = 1
               /\ Keys(discoveredDevices') = {FirstIdentifier(last'.message.value)}
               /\ Len(log') = 2]_vars

\* an unparseable message, then a well-formed one: one entity, no exception
C4_Witness ==
    /\ log = <<CaughtError("SyntaxError"), TypeLogged>>
    /\ last.handler = "message" /\ WellFormed(last.message)
    /\ Len(discoveredIds) = 1
    /\ EntityCount(discoveredDevices) = 1
    /\ ~uncaught

(* C5: once the window timer has fired, no inbound message of any topic    *)
(* changes discoveredIds or discoveredDevices, and no registration request *)
(* already submitted changes.                                              *)
C5_ClosedWindowFreezesSession ==
    [][loopRuns >= 1
        => /\ discoveredIds' = discoveredIds
           /\ discoveredDevices' = discoveredDevices
           /\ Len(registrations') >= Len(registrations)
           /\ \A i \in DOMAIN registrations :
                  registrations'[i].req = registrations[i].req]_vars

\* a well-formed discovery message with a new unique_id arrived after the window had
\* closed and a device had been submitted
C5_Witness ==
    /\ loopRuns >= 1
    /\ last.handler = "message"
    /\ MatchesDiscovery(last.topic)
    /\ WellFormed(last.message)
    /\ ~Has(discoveredIds, last.message.value.unique_id)
    /\ Len(registrations) >= 1

\* the registration requests a step appends
Submitted == SubSeq(registrations', Len(registrations) + 1, Len(registrations'))

(* C6: over any sequence of transport events, reconnects included, the     *)
(* loop of the 'discoverEnds' listener runs at most once, so no device     *)
(* identifier is submitted for registration twice.                         *)
C6_HandoffOnce ==
    /\ loopRuns <= 1
    /\ \A i, j \in DOMAIN registrations :
          registrations[i].req.id = registrations[j].req.id => i = j

(* C7: a 'connect' event opens the window: after it the window is open,    *)
(* and when the window had already closed the session the collector sees   *)
(* is a fresh one, without the devices of the session before.              *)
C7_ReconnectOpensWindow ==
    [][ConnectStep
        => /\ discoverActive'
           /\ ~discoverActive => (discoveredIds' = <<>> /\ discoveredDevices' = <<>>)]_vars

(* C8: while the window is open an inbound message is raised as 'discover' *)
(* if and only if its topic starts with the discovery root and ends with   *)
(* '/config', and is dropped otherwise; after the window has closed every  *)
(* message is raised as 'message' and none reaches the collector.          *)
C8_MessageRouting ==
    [][MessageStep
        => /\ (discoverActive /\ MatchesDiscovery(last'.topic))
                => (last'.emitted = "discover" /\ Len(log') > Len(log))
           /\ (discoverActive /\ ~MatchesDiscovery(last'.topic))
                => (last'.emitted = "none" /\ log' = log
                    /\ discoveredIds' = discoveredIds
                    /\ discoveredDevices' = discoveredDevices)
           /\ ~discoverActive
                => (last'.emitted = "message" /\ log' = log
                    /\ discoveredIds' = discoveredIds
                    /\ discoveredDevices' = discoveredDevices)]_vars

\* a well-formed message under the root that is no config topic was dropped while the
\* window was open
C8_Witness ==
    /\ discoverActive
    /\ last.handler = "message"
    /\ last.topic = TopicRootState
    /\ WellFormed(last.message)
    /\ last.emitted = "none"
    /\ discoveredIds = <<>>

(* C9: when the window timer fires, one registration request is built and  *)
(* submitted for every device record: its id is the device identifier, its *)
(* name the device's name, and it has one child per entity record of the   *)
(* device, named by the entity's name and typed by the classifier (class   *)
(* temperature gives temperatureSensor, class door gives contactSensor).   *)
C9_OneRegistrationPerDevice ==
    [][TimerStep
        => /\ Len(Submitted) = Len(discoveredDevices)
           /\ \A d \in Keys(discoveredDevices) :
                 /\ Cardinality({i \in DOMAIN Submitted : Submitted[i].req.id = d}) = 1
                 /\ \A i \in DOMAIN Submitted :
                       Submitted[i].req.id = d
                         => LET req == Submitted[i].req
                                dev == Get(discoveredDevices, d)
                            IN  /\ req.name = dev.name
                                /\ Len(req.children) = Len(dev.Ids)
                                /\ \A n \in DOMAIN dev.Ids :
                                      LET e == dev.Ids[n].v
                                          c == req.children[n]
                                      IN  /\ c.name = e.name
                                          /\ c.type = mapDiscoveryToMatterDeviceType(e)
                                          /\ e.device_class = "temperature"
                                                => c.type = "temperatureSensor"
                                          /\ e.device_class = "door"
                                                => c.type = "contactSensor"]_vars

\* e1 (temperature) and e2 (door) of dev-1 were collected and the window closed: one
\* request for dev-1 with the children temperatureSensor and contactSensor
C9_Witness ==
    /\ loopRuns = 1
    /\ Len(registrations) = 1
    /\ registrations[1].req.id = "dev-1"
    /\ registrations[1].req.name = "Node A"
    /\ registrations[1].req.children =
          <<[name |-> "Temp", type |-> "temperatureSensor"],
            [name |-> "Door", type |-> "contactSensor"]>>
    /\ Keys(discoveredIds) = {"e1", "e2"}

(* C10: a registration that fails, when it is called or while it is        *)
(* suspended, is logged once and changes nothing else: every device of the *)
(* session is submitted when the timer fires, whichever of them fail, and  *)
(* a rejection leaves every other registration as it was.                  *)
C10_FailureIsolated ==
    [][/\ TimerStep
            => /\ \A d \in Keys(discoveredDevices) :
                     \E i \in DOMAIN Submitted : Submitted[i].req.id = d
               /\ Len(log') - Len(log) =
                     Cardinality({i \in DOMAIN Submitted : Submitted[i].status = "rejected"})
       /\ \A i \in DOMAIN registrations :
             /\ registrations'[i].req = registrations[i].req
             /\ registrations[i].status # "pending"
                   => registrations'[i].status = registrations[i].status
             /\ (registrations[i].status = "pending" /\ registrations'[i].status = "rejected")
                   => /\ log' = Append(log, RejectedLogged)
                      /\ \A j \in DOMAIN registrations \ {i} :
                            registrations'[j] = registrations[j]]_vars

\* in one run of the loop the registration of a device failed and that of a device
\* after it was submitted and has succeeded
C10_Witness ==
    \E i, j \in DOMAIN registrations :
        /\ i < j
        /\ registrations[i].run = registrations[j].run
        /\ registrations[i].status = "rejected"
        /\ registrations[j].status = "registered"
        /\ registrations[i].req.id # registrations[j].req.id

-----------------------------------------------------------------------------
(* Properties of the classifier.                                           *)

\* the capability types the classifier can return
CapabilityTypes ==
    {"temperatureSensor", "humiditySensor", "pressureSensor", "lightSensor",
     "electricalSensor", "airQualitySensor", "occupancySensor", "contactSensor",
     "waterLeakDetector", "smokeCoAlarm", "dimmableLight", "onOffSwitch", "onOffOutlet",
     "waterValve", "coverDevice", "fanDevice", "airPurifier", "thermostatDevice",
     "doorLockDevice", "modeSelect", "genericSwitch"}

\* the class of the record is a name of the table
ClassFound(e) == e.device_class \in DOMAIN ClassMap
\* the unit of the record is one of the five the classifier knows
UnitFound(e) == e.unit_of_measurement \in {"W", "Wh", "kWh", "°C", "°F"}
\* min and max are present, min >= 0 and max <= 100
PercentRange(e) == e.min # <<>> /\ e.max # <<>> /\ e.min[1] >= 0 /\ e.max[1] <= 100

C12_CollectedStructuralFallback ==
    [][TimerStep
        => \A i \in DOMAIN Submitted :
              LET dev == Get(discoveredDevices, Submitted[i].req.id)
              IN  \A n \in DOMAIN dev.Ids :
                     LET e == dev.Ids[n].v
                         c == Submitted[i].req.children[n]
                         plain == e.device_class = Undefined /\ ~UnitFound(e)
                     IN  /\ (plain /\ e.discoverType = <<"n", "u", "m", "b", "e", "r">>
                                /\ e.min = <<0>> /\ e.max = <<100>>)
                              => c.type = "dimmableLight"
                         /\ (plain /\ e.discoverType = <<"n", "u", "m", "b", "e", "r">>
                                /\ e.min = <<0>> /\ e.max = <<255>>)
                              => c.type = "modeSelect"
                         /\ (plain /\ e.discoverType = <<"s", "e", "l", "e", "c", "t">>)
                              => c.type = "modeSelect"]_vars

\* the table as the specification lists it
ListedClassTable ==
    [temperature |-> "temperatureSensor", humidity |-> "humiditySensor",
     pressure |-> "pressureSensor", illuminance |-> "lightSensor",
     power |-> "electricalSensor", energy |-> "electricalSensor",
     voltage |-> "electricalSensor", current |-> "electricalSensor",
     carbon_dioxide |-> "airQualitySensor", carbon_monoxide |-> "airQualitySensor",
     volatile_organic_compounds |-> "airQualitySensor",
     motion |-> "occupancySensor", presence |-> "occupancySensor",
     door |-> "contactSensor", window |-> "contactSensor",
     moisture |-> "waterLeakDetector", smoke |-> "smokeCoAlarm", gas |-> "smokeCoAlarm",
     light |-> "dimmableLight", switch |-> "onOffSwitch", outlet |-> "onOffOutlet",
     valve |-> "waterValve", cover |-> "coverDevice", fan |-> "fanDevice",
     humidifier |-> "airPurifier", dehumidifier |-> "airPurifier",
     thermostat |-> "thermostatDevice", lock |-> "doorLockDevice"]

\* the listed table with the name volatile_organic_compounds_parts in the place of
\* volatile_organic_compounds
AmendedClassTable ==
    [c \in (DOMAIN ListedClassTable \ {"volatile_organic_compounds"})
              \cup {"volatile_organic_compounds_parts"} |->
        IF c = "volatile_organic_compounds_parts" THEN "airQualitySensor"
        ELSE ListedClassTable[c]]

(* C13: for every device-class name the specification lists, the           *)
(* classifier returns the listed capability type, whatever the other       *)
(* fields of the record hold.                                              *)
C13_ListedClassTable ==
    (deviceType # "none" /\ entity.device_class \in DOMAIN ListedClassTable)
        => deviceType = ListedClassTable[entity.device_class]

(* C13 as amended: the same for the listed names with                      *)
(* volatile_organic_compounds_parts in the place of                        *)
(* volatile_organic_compounds.                                             *)
C13_AmendedClassTable ==
    (deviceType # "none" /\ entity.device_class \in DOMAIN AmendedClassTable)
        => deviceType = AmendedClassTable[entity.device_class]

\* class volatile_organic_compounds_parts with a unit of the unit rule: air quality
C13_Witness ==
    /\ entity.device_class = "volatile_organic_compounds_parts"
    /\ entity.unit_of_measurement = "kWh"
    /\ deviceType = "airQualitySensor"

-----------------------------------------------------------------------------
(* Properties of the session's records.                                    *)

\* no two entries of the record have the same key
UniqueKeys(rec) == \A i, j \in DOMAIN rec : rec[i].k = rec[j].k => i = j

(* C14: a device record is created at most once per device identifier, by  *)
(* the first message of an entity of that device, with the name that       *)
(* message carries; no later step changes the name of a device record,     *)
(* removes it or replaces it: its entity map only grows at the end.        *)
C14_DeviceRecordCreatedOnce ==
    [][/\ UniqueKeys(discoveredDevices')
       /\ Len(discoveredDevices') >= Len(discoveredDevices)
       /\ \A i \in DOMAIN discoveredDevices :
             /\ discoveredDevices'[i].k = discoveredDevices[i].k
             /\ discoveredDevices'[i].v.name = discoveredDevices[i].v.name
             /\ Len(discoveredDevices'[i].v.Ids) >= Len(discoveredDevices[i].v.Ids)
             /\ SubSeq(discoveredDevices'[i].v.Ids, 1, Len(discoveredDevices[i].v.Ids))
                    = discoveredDevices[i].v.Ids
       /\ \A i \in DOMAIN discoveredDevices' \ DOMAIN discoveredDevices :
             /\ CollectStep
             /\ i = Len(discoveredDevices) + 1
             /\ discoveredDevices'[i].k = Key(FirstIdentifier(last'.message.value))
             /\ discoveredDevices'[i].v.name = last'.message.value.device.name
             /\ Keys(discoveredDevices'[i].v.Ids) = {Key(last'.message.value.unique_id)}]_vars

\* a message of device dev-1 that names the device "Renamed" has been collected, and the
\* record of dev-1 has the name of the first message
C14_Witness ==
    /\ last.handler = "message" /\ last.emitted = "discover"
    /\ last.message = JsonObject(PayloadE1Again)
    /\ Has(discoveredDevices, "dev-1")
    /\ Get(discoveredDevices, "dev-1").name = "Node A"

(* C15: a transport error, disconnect or close event never throws out of   *)
(* the adapter, never changes the session and does not stop the handoff:   *)
(* the armed timers stay armed and no exception is left uncaught.          *)
C15_TransportEventsSurfaced ==
    [][(nEvents' = nEvents + 1 /\ last'.handler \in {"error", "disconnect", "close"})
        => /\ uncaught' = uncaught
           /\ session' = session
           /\ pendingTimers' = pendingTimers
           /\ registrations' = registrations]_vars

\* the entity record has the three fields the collector requires
RecordWellFormed(e) ==
    /\ e.unique_id # Undefined
    /\ e.device.present
    /\ e.device.name # Undefined
    /\ FirstIdentifier(e) # Undefined

(* C16: every device record has at least one entity in its entity map,     *)
(* and every entity of an entity map, hence every child of a registration, *)
(* comes of a message that parsed with unique_id, device.name and          *)
(* device.identifiers[0]; a device whose messages were all malformed has   *)
(* no record.                                                              *)
C16_NoMalformedRegistrations ==
    \A i \in DOMAIN discoveredDevices :
        /\ Len(discoveredDevices[i].v.Ids) >= 1
        /\ discoveredDevices[i].k # Key(Undefined)
        /\ \A n \in DOMAIN discoveredDevices[i].v.Ids :
              /\ discoveredDevices[i].v.Ids[n].k # Key(Undefined)
              /\ RecordWellFormed(discoveredDevices[i].v.Ids[n].v)

(* C17: every unique_id of the entity index is in the entity map of        *)
(* exactly one device record, the one named by the first identifier of the *)
(* indexed payload, and the record there is the indexed payload; every     *)
(* unique_id of an entity map is in the index.                             *)
C17_OneDevicePerEntity ==
    /\ \A n \in DOMAIN discoveredIds :
          LET uid == discoveredIds[n].k
              p == discoveredIds[n].v
              d == Key(FirstIdentifier(p))
          IN  /\ OwnersOf(discoveredDevices, uid) = {d}
              /\ Get(IdsOf(discoveredDevices, d), uid) = p
    /\ IdsOfDevices(discoveredDevices) \subseteq Keys(discoveredIds)

-----------------------------------------------------------------------------
(* Properties of the window, of the collector's calls and of the           *)
(* subscriptions.                                                          *)

\* an armed timer is removed only by its own callback, and the callback sets the flag
\* to false in the step that runs the listener, which collects nothing
WindowOrdered ==
    [][/\ pendingTimers' < pendingTimers
          => (TimerStep /\ pendingTimers' = pendingTimers - 1)
       /\ TimerStep
          => /\ ~discoverActive'
             /\ last'.emitted = "discoverEnds"
             /\ session' = session]_vars

(* C18: after every connect the window timer eventually fires, whatever    *)
(* disconnect, close, error or message events occur in between: an armed   *)
(* timer is removed only by its own callback, and every timer armed in a   *)
(* running process is eventually run.  The callback sets discoverActive to *)
(* false in the step that runs the 'discoverEnds' listener, and that step  *)
(* collects nothing.                                                       *)
C18_WindowCloses ==
    WindowOrdered /\ ((pendingTimers > 0 /\ ~uncaught) ~> (pendingTimers = 0))

\* the entries of a record, without their order
Entries(rec) == {rec[i] : i \in DOMAIN rec}
\* the messages that hold an object
Objects(msgs) == {n \in DOMAIN msgs : msgs[n].message.json = "object"}
\* the unique_ids of the messages are pairwise distinct
DistinctUniqueIds(msgs) ==
    \A m, n \in Objects(msgs) :
        msgs[m].message.value.unique_id = msgs[n].message.value.unique_id => m = n
\* the two sessions have the same devices with the same entity records
SameDevices(s, t) ==
    /\ Keys(s.devs) = Keys(t.devs)
    /\ \A d \in Keys(s.devs) : Entries(Get(s.devs, d).Ids) = Entries(Get(t.devs, d).Ids)

(* C19: handling a message a second time leaves the session as the first   *)
(* time left it; messages with pairwise distinct unique_ids give, in every *)
(* arrival order, the same set of devices and the same entity records in   *)
(* each device's entity map (the name of a device may differ).             *)
C19_IdempotentOrderInsensitive ==
    outcomes # <<>>
        => /\ outcomes[1].twice = outcomes[1].once
           /\ DistinctUniqueIds(arrivals)
                => \A o \in DOMAIN Orders :
                      SameDevices(outcomes[1].orders[o], outcomes[1].orders[1])

\* two entities of device dev-1 with different device names and an entity of dev-2 have
\* been collected in every order; the name of dev-1 depends on the order
C19_Witness ==
    /\ outcomes # <<>>
    /\ arrivals[1].message = JsonObject(PayloadE1Again)
    /\ arrivals[2].message = JsonObject(PayloadE2)
    /\ arrivals[3].message = JsonObject(PayloadE3)
    /\ Get(outcomes[1].orders[1].devs, "dev-1").name = "Renamed"
    /\ Get(outcomes[1].orders[3].devs, "dev-1").name = "Node A"
    /\ Keys(Get(outcomes[1].orders[3].devs, "dev-1").Ids) = {"e1", "e2"}

\* the patterns the adapter has subscribed to
Patterns == {subscribed[i] : i \in DOMAIN subscribed}
\* '<root>/+/+/config' and '<root>/+/+/+/config' for the root "ha"
RootPatterns ==
    {<<"h", "a", "/", "+", "/", "+", "/", "c", "o", "n", "f", "i", "g">>,
     <<"h", "a", "/", "+", "/", "+", "/", "+", "/", "c", "o", "n", "f", "i", "g">>}

(* C20: on every connect the adapter subscribes to exactly two patterns,   *)
(* '<root>/+/+/config' and '<root>/+/+/+/config', and to no other.         *)
C20_ExactlyTwoPatterns ==
    subscribed # <<>> => Patterns = RootPatterns

(* C20 as amended: on every connect the adapter subscribes to 24 patterns: *)
(* the two of the discovery root, '<root>/+/+/config' and                  *)
(* '<root>/+/+/+/config', which are the only ones that begin with the      *)
(* root, and the 22 state patterns 'lorawan_<i>/+/state' and               *)
(* 'lorawan_<i>/+/+/state' for i = 0..10.                                  *)
C20_RootAndStatePatterns ==
    subscribed # <<>>
        => /\ Len(subscribed) = 24
           /\ Cardinality(Patterns) = 24
           /\ {p \in Patterns : StartsWith(p, discovertopic)} = RootPatterns
           /\ \A p \in Patterns \ RootPatterns :
                 \E i \in 0..10 :
                    \/ p = LorawanWord \o Decimal(i) \o <<"/", "+", "/">> \o StateWord
                    \/ p = LorawanWord \o Decimal(i) \o <<"/", "+", "/", "+", "/">>
                               \o StateWord

\* the adapter has subscribed again, on a reconnect
C20_Witness ==
    /\ last.handler = "connect"
    /\ last.emitted = "none"
    /\ Len(subscribed) = 24
    /\ RootPatterns \subseteq Patterns

====
